---- MODULE Spec2Model ----
(***************************************************************************)
(* Model of approve-dependabot-prs.js (src/unnamed/part_000): the run of   *)
(* main() over the configured repository list, one step per awaited call   *)
(* to the remote API.  The remote system answers every call with one of    *)
(* the outcomes its interface allows; the reviews it stores persist from   *)
(* one run of the script to the next.                                      *)
(***************************************************************************)
EXTENDS Integers, Sequences, FiniteSets, TLC

VARIABLES
    run,          \* number of the current invocation of the script
    repos,        \* lines of repos.txt, each split at "/"
    i,            \* index in repos of the entry being processed (0 before the loop)
    pc,           \* the await the run is at, or a loop head
    cache,        \* orgAccessCache
    stats,        \* stats
    prs,          \* dependabotPRs of the repository being processed
    j,            \* index in prs of the pull request being processed
    pass,         \* observation of the current pull request's pass
    ent,          \* observation of the current repository entry
    reviews,      \* remote: the reviews stored for each pull request
    createCalls,  \* create-review calls issued in this run, per pull request
    createOks,    \* create-review calls that created a review in this run
    probes,       \* organization probes issued in this run, per owner
    forbidden,    \* owners whose probe was answered 403 in this run
    firstDecision, \* the decision each owner's first probe of this run computed
    everCreated,  \* pull requests an earlier run created a review for
    calls,        \* list and combined-status calls issued in this run, and
                  \* the dependency-bot pull requests the list calls returned
    head          \* remote: the head commit of each pull request's branch

vars == <<run, repos, i, pc, cache, stats, prs, j, pass, ent, reviews,
          createCalls, createOks, probes, forbidden, firstDecision,
          everCreated, calls, head>>

----------------------------------------------------------------------------
(* Bounds *)

MaxRepos == 2

MaxRuns == 2

MaxPushes == 1

----------------------------------------------------------------------------
(* Values *)

Undefined == "undefined"

None == "none"

Me == <<"m", "e">>

Other == <<"b", "o", "b">>

BotLogin == <<"d", "e", "p", "e", "n", "d", "a", "b", "o", "t", "[", "b", "o", "t", "]">>

MixedCaseBotLogin == <<"D", "e", "p", "e", "n", "d", "a", "B", "o", "t", "-", "x">>

HumanLogin == <<"a", "l", "i", "c", "e">>

Marker == <<"d", "e", "p", "e", "n", "d", "a", "b", "o", "t">>

\* Entries of repos.txt after split("/"): valid ones, a line without a slash,
\* a line with an empty owner, a three-segment line.
Entries ==
    { <<"o1", "r1">>, <<"o1", "r2">>, <<"o2", "r1">>,
      <<"o1">>, <<"", "r1">>, <<"o1", "r2", "x">> }

Owners == {"o1", "o2"}

\* The open pull requests the remote system lists for a repository.
RemotePRs(owner, repo) ==
    IF owner = "o1" /\ repo = "r1"
      THEN << [number |-> 1, user |-> TRUE, login |-> BotLogin],
              [number |-> 2, user |-> TRUE, login |-> HumanLogin],
              [number |-> 3, user |-> TRUE, login |-> MixedCaseBotLogin] >>
    ELSE IF owner = "o1" /\ repo = "r2"
      THEN << [number |-> 4, user |-> FALSE, login |-> << >>],
              [number |-> 6, user |-> TRUE, login |-> HumanLogin] >>
    ELSE IF owner = "o2" /\ repo = "r1"
      THEN << [number |-> 5, user |-> TRUE, login |-> BotLogin] >>
    ELSE << >>

PRKeys == { <<"o1", "r1", 1>>, <<"o1", "r1", 3>>, <<"o2", "r1", 5>> }

\* The repositories the entries name.
RepoKeys == { <<"o1", "r1">>, <<"o1", "r2">>, <<"o2", "r1">> }

\* The reviews the remote system holds before the first run.
InitialReviews(k) ==
    IF k = <<"o1", "r1", 3>>
      THEN { [login |-> Me, state |-> "APPROVED"],
             [login |-> Other, state |-> "CHANGES_REQUESTED"] }
    ELSE IF k = <<"o2", "r1", 5>>
      THEN { [login |-> Other, state |-> "APPROVED"],
             [login |-> Me, state |-> "COMMENTED"] }
    ELSE {}

ErrStatuses == {401, 403, 404, 422, 500}

MergeableStates == {"behind", "blocked", "clean", "dirty", "unknown"}

CombinedStates == {"success", "pending", "failure", "error", "neutral"}

----------------------------------------------------------------------------
(* Pure helpers *)

UpperCase == <<"A", "B", "D">>

LowerCase == <<"a", "b", "d">>

toLowerCaseChar(c) ==
    IF \E k \in 1..Len(UpperCase) : UpperCase[k] = c
      THEN LowerCase[CHOOSE k \in 1..Len(UpperCase) : UpperCase[k] = c]
      ELSE c

toLowerCase(s) == [k \in 1..Len(s) |-> toLowerCaseChar(s[k])]

includes(s, sub) ==
    \E k \in 0..(Len(s) - Len(sub)) : SubSeq(s, k + 1, k + Len(sub)) = sub

IsDependabot_CaseSensitive(pr) ==
    IF ~pr.user THEN FALSE
    ELSE includes(pr.login, Marker)

\* pr.user?.login?.toLowerCase().includes("dependabot")
IsDependabot(pr) ==
    IF ~pr.user THEN FALSE
    ELSE includes(toLowerCase(pr.login), Marker)

\* pullRequests.filter(...)
DependabotPRs(pullRequests) == SelectSeq(pullRequests, IsDependabot)

\* pr.head.sha of the items of the list response: the heads at the time of
\* the list call
WithHeadSha(pullRequests, owner, repo, heads) ==
    [k \in DOMAIN pullRequests |->
       [number |-> pullRequests[k].number, user |-> pullRequests[k].user,
        login |-> pullRequests[k].login,
        sha |-> heads[<<owner, repo, pullRequests[k].number>>]]]

\* syncBranchIfBehind(owner, repo, prDetails): expected_head_sha: pr.head.sha
ExpectedHeadSha_ListItem(prSha, prDetailsSha) == prSha

ExpectedHeadSha(prSha, prDetailsSha) == prDetailsSha

\* isPullRequestGreen(owner, repo, pr): ref: pr.head.sha
StatusRef(prSha, prDetailsSha) == prSha

\* const [owner, repo] = fullName.split("/")
OwnerOf(e) == IF Len(e) >= 1 THEN e[1] ELSE Undefined

RepoOf(e) == IF Len(e) >= 2 THEN e[2] ELSE Undefined

Falsy(s) == s = Undefined \/ s = ""

InvalidEntry(e) == Falsy(OwnerOf(e)) \/ Falsy(RepoOf(e))

IsOutdated_Never(ms) == FALSE

\* outdatedStates.includes(pr.mergeable_state)
IsOutdated(ms) == ms \in {"behind", "blocked"}

\* data.state === "success"
IsGreenState_NotFailed(state) == state \notin {"failure", "error"}

IsGreenState_OrPending(state) == state \in {"success", "pending"}

IsGreenState(state) == state = "success"

\* isPullRequestGreen's catch: fail safe, not green
GreenOnError_Open == TRUE

GreenOnError == FALSE

\* reviews.some(r => r.user.login === currentUserLogin && r.state === "APPROVED")
AlreadyApproved_Never(rs, login) == FALSE

AlreadyApproved_WrongState(rs, login) ==
    \E r \in rs : r.login = login /\ r.state = "COMMENTED"

AlreadyApproved_OtherUser(rs, login) ==
    \E r \in rs : r.login # login /\ r.state = "APPROVED"

AlreadyApproved(rs, login) ==
    \E r \in rs : r.login = login /\ r.state = "APPROVED"

\* createReview's arguments
ReviewEvent == "APPROVE"

ReviewBody_Comment == "Approved automatically"

ReviewBody == ""

\* checkSAMLAccess
CheckSAMLAccess_FailOpen(outcome) == [hasAccess |-> TRUE, error |-> None]

CheckSAMLAccess_NotFoundDenied(outcome) ==
    IF outcome \in {403, 404} THEN [hasAccess |-> FALSE, error |-> "saml"]
    ELSE IF outcome = 401 THEN [hasAccess |-> FALSE, error |-> "auth"]
    ELSE [hasAccess |-> TRUE, error |-> None]

CheckSAMLAccess(outcome) ==
    IF outcome = 403 THEN [hasAccess |-> FALSE, error |-> "saml"]
    ELSE IF outcome = 401 THEN [hasAccess |-> FALSE, error |-> "auth"]
    ELSE [hasAccess |-> TRUE, error |-> None]

NoEntry == [hasAccess |-> FALSE, error |-> "absent"]

\* orgAccessCache.has(owner)
CacheHas_Never(c, owner) == FALSE

CacheHas(c, owner) == c[owner] # NoEntry

Inc(s, f) == [s EXCEPT ![f] = @ + 1]

\* stats.updated++ after a triggered sync
CountUpdated_Skipped(s) == Inc(s, "skipped")

CountUpdated(s) == Inc(s, "updated")

\* the per-repository catch block
Catch_NoElse(s, status) ==
    IF status = 403 THEN Inc(Inc(s, "saml_blocked"), "skipped")
    ELSE IF status = 401 THEN Inc(s, "saml_blocked")
    ELSE Inc(s, "skipped")

Catch(s, status) ==
    IF status = 403 THEN Inc(s, "saml_blocked")
    ELSE IF status = 401 THEN Inc(s, "saml_blocked")
    ELSE Inc(s, "skipped")

\* What the remote system means by a 422 on update-branch: the branch is
\* already up to date, or it cannot be merged.
Rejections == {"e422", "e422conflict"}

\* syncBranchIfBehind's catch: the failure of the update-branch request
SyncResult(status, reason) == IF status = 422 THEN reason ELSE "err"

\* main after syncBranchIfBehind: continue when it triggered a sync
AfterSync_FallThrough(updated) == "status"

AfterSync(updated) == IF updated THEN "pr" ELSE "status"

ZeroStats == [approved |-> 0, skipped |-> 0, updated |-> 0, saml_blocked |-> 0]

NoSha == -1

NoPass ==
    [pr |-> 0, listSha |-> NoSha, getSha |-> NoSha, expectedHeadSha |-> NoSha,
     ref |-> NoSha, reviewedSha |-> NoSha, stats0 |-> ZeroStats, ms |-> None, sync |-> None, ci |-> None,
     listOk |-> FALSE, listed |-> {}, created |-> None, event |-> None, body |-> None,
     nGet |-> 0, nUpdate |-> 0, nStatus |-> 0, nAuth |-> 0, nList |-> 0,
     nCreate |-> 0, outcome |-> None]

NoEnt ==
    [stats0 |-> ZeroStats, called |-> FALSE, probed |-> FALSE,
     probeStatus |-> 0, decision |-> NoEntry, nList |-> 0, threw |-> FALSE]

NoCalls ==
    [list |-> [r \in RepoKeys |-> 0], status |-> [k \in PRKeys |-> 0],
     listed |-> 0]

SeqsUpTo(S, n) == UNION { [1..k -> S] : k \in 1..n }

owner == OwnerOf(repos[i])

repo == RepoOf(repos[i])

key == <<owner, repo, pass.pr>>

----------------------------------------------------------------------------
(* The run *)

Init ==
    /\ run = 1
    /\ repos \in SeqsUpTo(Entries, MaxRepos)
    /\ i = 0
    /\ pc = "repo"
    /\ cache = [o \in Owners |-> NoEntry]
    /\ stats = ZeroStats
    /\ prs = << >>
    /\ j = 0
    /\ pass = NoPass
    /\ ent = NoEnt
    /\ reviews = [k \in PRKeys |-> InitialReviews(k)]
    /\ createCalls = [k \in PRKeys |-> 0]
    /\ createOks = [k \in PRKeys |-> 0]
    /\ probes = [o \in Owners |-> 0]
    /\ forbidden = {}
    /\ firstDecision = [o \in Owners |-> NoEntry]
    /\ everCreated = {}
    /\ calls = NoCalls
    /\ head = [k \in PRKeys |-> 0]

\* lines 206-211: the cached decision gates the repository
Gate(decision, s) ==
    IF ~decision.hasAccess
      THEN /\ stats' = Inc(s, "saml_blocked")
           /\ pc' = "repo"
      ELSE /\ stats' = s
           /\ pc' = "list"

\* for (const fullName of repos): the loop head up to the first await
NextRepo ==
    /\ pc = "repo"
    /\ pass' = NoPass
    /\ prs' = << >>
    /\ j' = 0
    /\ UNCHANGED <<run, repos, cache, reviews, createCalls, createOks,
                   probes, forbidden, firstDecision, everCreated, calls, head>>
    /\ IF i = Len(repos)
         THEN /\ pc' = "done"
              /\ UNCHANGED <<i, stats, ent>>
         ELSE /\ i' = i + 1
              /\ LET e == repos[i + 1] IN
                 IF InvalidEntry(e)
                   THEN /\ pc' = "repo"
                        /\ ent' = [NoEnt EXCEPT !.stats0 = stats]
                        /\ UNCHANGED stats
                 ELSE IF ~CacheHas(cache, OwnerOf(e))
                   THEN /\ pc' = "probe"
                        /\ ent' = [NoEnt EXCEPT !.stats0 = stats]
                        /\ UNCHANGED stats
                 ELSE /\ ent' = [NoEnt EXCEPT !.stats0 = stats,
                                              !.decision = cache[OwnerOf(e)]]
                      /\ Gate(cache[OwnerOf(e)], stats)

\* await checkSAMLAccess(owner); orgAccessCache.set(owner, accessCheck)
Probe ==
    /\ pc = "probe"
    /\ \E outcome \in {200} \cup ErrStatuses :
         LET decision == CheckSAMLAccess(outcome) IN
         /\ cache' = [cache EXCEPT ![owner] = decision]
         /\ ent' = [ent EXCEPT !.probed = TRUE, !.probeStatus = outcome,
                                !.decision = decision]
         /\ Gate(decision, stats)
         /\ forbidden' = IF outcome = 403 THEN forbidden \cup {owner} ELSE forbidden
         /\ firstDecision' = IF probes[owner] = 0
                               THEN [firstDecision EXCEPT ![owner] = decision]
                               ELSE firstDecision
    /\ probes' = [probes EXCEPT ![owner] = @ + 1]
    /\ UNCHANGED <<run, repos, i, prs, j, pass, reviews, createCalls,
                   createOks, everCreated, calls, head>>

\* A call inside the try block throws: the catch block counts it and the
\* loop goes on with the next repository.
Throw_Rethrow(status) ==
    /\ stats' = stats
    /\ pc' = "rejected"
    /\ ent' = [ent EXCEPT !.called = TRUE, !.probeStatus = 0, !.threw = TRUE]

Throw_Retry(status) ==
    /\ stats' = Catch(stats, status)
    /\ pc' = "list"
    /\ ent' = [ent EXCEPT !.called = TRUE, !.probeStatus = 0, !.threw = TRUE]

Throw(status) ==
    /\ stats' = Catch(stats, status)
    /\ pc' = "repo"
    /\ ent' = [ent EXCEPT !.called = TRUE, !.probeStatus = 0, !.threw = TRUE]

\* A call inside the try block is issued and does not reach the catch block.
Called == ent' = [ent EXCEPT !.called = TRUE, !.probeStatus = 0]

\* await octokit.pulls.list(...), the filter, the empty-list shortcut
List ==
    /\ pc = "list"
    /\ \/ /\ LET dependabotPRs == DependabotPRs(RemotePRs(owner, repo)) IN
             /\ prs' = WithHeadSha(dependabotPRs, owner, repo, head)
             /\ pc' = IF Len(dependabotPRs) = 0 THEN "repo" ELSE "pr"
             /\ calls' = [calls EXCEPT !.list[<<owner, repo>>] = @ + 1,
                                       !.listed = @ + Len(dependabotPRs)]
          /\ ent' = [ent EXCEPT !.called = TRUE, !.probeStatus = 0,
                                 !.nList = @ + 1]
          /\ UNCHANGED stats
       \/ /\ \E status \in ErrStatuses :
               /\ stats' = Catch(stats, status)
               /\ pc' = "repo"
               /\ ent' = [ent EXCEPT !.called = TRUE, !.probeStatus = 0,
                                      !.nList = @ + 1, !.threw = TRUE]
          /\ calls' = [calls EXCEPT !.list[<<owner, repo>>] = @ + 1]
          /\ UNCHANGED prs
    /\ UNCHANGED <<run, repos, i, cache, j, pass, reviews, createCalls,
                   createOks, probes, forbidden, firstDecision, everCreated,
                   head>>

\* for (const pr of dependabotPRs): the loop head
NextPR ==
    /\ pc = "pr"
    /\ IF j = Len(prs)
         THEN /\ pc' = "repo"
              /\ pass' = NoPass
              /\ UNCHANGED j
         ELSE /\ j' = j + 1
              /\ pass' = [NoPass EXCEPT !.pr = prs[j + 1].number,
                                        !.listSha = prs[j + 1].sha,
                                        !.stats0 = stats]
              /\ pc' = "get"
    /\ UNCHANGED <<run, repos, i, cache, stats, prs, ent, reviews,
                   createCalls, createOks, probes, forbidden, firstDecision,
                   everCreated, calls, head>>

\* await octokit.pulls.get(...), then syncBranchIfBehind up to its request
GetPR ==
    /\ pc = "get"
    /\ \/ /\ \E ms \in MergeableStates :
               /\ pass' = [pass EXCEPT !.nGet = @ + 1, !.ms = ms,
                                        !.getSha = head[key]]
               /\ pc' = IF IsOutdated(ms) THEN "sync" ELSE "status"
          /\ Called
          /\ UNCHANGED stats
       \/ /\ \E status \in ErrStatuses : Throw(status)
          /\ pass' = [pass EXCEPT !.nGet = @ + 1, !.outcome = "threw"]
    /\ UNCHANGED <<run, repos, i, cache, prs, j, reviews, createCalls,
                   createOks, probes, forbidden, firstDecision, everCreated, calls, head>>

\* await octokit.request("PUT .../update-branch"), the return of
\* syncBranchIfBehind and main's "if (updated)"
\* The remote system queues the update only while the branch head is still
\* the expected_head_sha of the request ("fail fast if someone pushed").
UpdateBranch ==
    /\ pc = "sync"
    /\ Called
    /\ \/ /\ head[key] = ExpectedHeadSha(pass.listSha, pass.getSha)
          /\ pc' = AfterSync(TRUE)
          /\ stats' = CountUpdated(stats)
          /\ pass' = [pass EXCEPT !.nUpdate = @ + 1, !.sync = "ok",
                                  !.expectedHeadSha =
                                     ExpectedHeadSha(pass.listSha, pass.getSha),
                                  !.outcome = "synced"]
       \/ /\ \E status \in ErrStatuses, reason \in Rejections :
               pass' = [pass EXCEPT !.nUpdate = @ + 1,
                                    !.expectedHeadSha =
                                       ExpectedHeadSha(pass.listSha, pass.getSha),
                                    !.sync = SyncResult(status, reason)]
          /\ pc' = AfterSync(FALSE)
          /\ UNCHANGED stats
    /\ UNCHANGED <<run, repos, i, cache, prs, j, reviews, createCalls,
                   createOks, probes, forbidden, firstDecision, everCreated,
                   calls, head>>

\* await isPullRequestGreen(owner, repo, pr) and main's "if (!green)"
AfterStatus(green, ci) ==
    IF green
      THEN /\ pc' = "auth"
           /\ pass' = [pass EXCEPT !.nStatus = @ + 1, !.ci = ci,
                                   !.ref = StatusRef(pass.listSha, pass.getSha)]
           /\ UNCHANGED stats
      ELSE /\ pc' = "pr"
           /\ pass' = [pass EXCEPT !.nStatus = @ + 1, !.ci = ci,
                                   !.ref = StatusRef(pass.listSha, pass.getSha),
                                   !.outcome = "skipped-not-green"]
           /\ stats' = Inc(stats, "skipped")

CombinedStatus ==
    /\ pc = "status"
    /\ calls' = [calls EXCEPT !.status[key] = @ + 1]
    /\ Called
    /\ \/ \E state \in CombinedStates : AfterStatus(IsGreenState(state), state)
       \/ \E status \in ErrStatuses : AfterStatus(GreenOnError, "threw")
    /\ UNCHANGED <<run, repos, i, cache, prs, j, reviews, createCalls,
                   createOks, probes, forbidden, firstDecision, everCreated,
                   head>>

\* approvePullRequest: await octokit.rest.users.getAuthenticated()
GetAuthenticated ==
    /\ pc = "auth"
    /\ \/ /\ pc' = "reviews"
          /\ Called
          /\ pass' = [pass EXCEPT !.nAuth = @ + 1]
          /\ UNCHANGED stats
       \/ /\ \E status \in ErrStatuses : Throw(status)
          /\ pass' = [pass EXCEPT !.nAuth = @ + 1, !.outcome = "threw"]
    /\ UNCHANGED <<run, repos, i, cache, prs, j, reviews, createCalls,
                   createOks, probes, forbidden, firstDecision, everCreated, calls, head>>

\* approvePullRequest: await octokit.pulls.listReviews(...), the duplicate
\* guard, and main's stats.approved++ when the guard returns early
ListReviews ==
    /\ pc = "reviews"
    /\ \/ IF AlreadyApproved(reviews[key], Me)
            THEN /\ pc' = "pr"
                 /\ Called
                 /\ pass' = [pass EXCEPT !.nList = @ + 1, !.listOk = TRUE,
                                         !.listed = reviews[key],
                                         !.outcome = "approved"]
                 /\ stats' = Inc(stats, "approved")
            ELSE /\ pc' = "create"
                 /\ Called
                 /\ pass' = [pass EXCEPT !.nList = @ + 1, !.listOk = TRUE,
                                         !.listed = reviews[key]]
                 /\ UNCHANGED stats
       \/ /\ \E status \in ErrStatuses : Throw(status)
          /\ pass' = [pass EXCEPT !.nList = @ + 1, !.outcome = "threw"]
    /\ UNCHANGED <<run, repos, i, cache, prs, j, reviews, createCalls,
                   createOks, probes, forbidden, firstDecision, everCreated, calls, head>>

\* approvePullRequest: await octokit.pulls.createReview(...), then main's
\* stats.approved++
\* The request names no commit, so the remote system records the review
\* against the head of the branch at that moment.
CreateReview ==
    /\ pc = "create"
    /\ createCalls' = [createCalls EXCEPT ![key] = @ + 1]
    /\ \/ /\ Called
          /\ reviews' = [reviews EXCEPT
                           ![key] = @ \cup {[login |-> Me, state |-> "APPROVED"]}]
          /\ createOks' = [createOks EXCEPT ![key] = @ + 1]
          /\ pc' = "pr"
          /\ pass' = [pass EXCEPT !.nCreate = @ + 1, !.created = "yes",
                                  !.event = ReviewEvent, !.body = ReviewBody,
                                  !.reviewedSha = head[key],
                                  !.outcome = "approved"]
          /\ stats' = Inc(stats, "approved")
       \/ /\ \E status \in ErrStatuses : Throw(status)
          /\ pass' = [pass EXCEPT !.nCreate = @ + 1, !.created = "no",
                                  !.event = ReviewEvent, !.body = ReviewBody,
                                  !.outcome = "threw"]
          /\ UNCHANGED <<reviews, createOks>>
    /\ UNCHANGED <<run, repos, i, cache, prs, j, probes, forbidden,
                   firstDecision, everCreated, calls, head>>

\* The script is invoked again (the next scheduled run): nothing in memory
\* survives, the remote system keeps its reviews.
NextRun ==
    /\ pc = "done"
    /\ run < MaxRuns
    /\ run' = run + 1
    /\ i' = 0
    /\ pc' = "repo"
    /\ cache' = [o \in Owners |-> NoEntry]
    /\ stats' = ZeroStats
    /\ prs' = << >>
    /\ j' = 0
    /\ pass' = NoPass
    /\ ent' = NoEnt
    /\ everCreated' = everCreated \cup {k \in PRKeys : createOks[k] > 0}
    /\ createCalls' = [k \in PRKeys |-> 0]
    /\ createOks' = [k \in PRKeys |-> 0]
    /\ probes' = [o \in Owners |-> 0]
    /\ forbidden' = {}
    /\ firstDecision' = [o \in Owners |-> NoEntry]
    /\ calls' = NoCalls
    /\ UNCHANGED <<repos, reviews, head>>

Next ==
    \/ NextRepo
    \/ Probe
    \/ List
    \/ NextPR
    \/ GetPR
    \/ UpdateBranch
    \/ CombinedStatus
    \/ GetAuthenticated
    \/ ListReviews
    \/ CreateReview
    \/ NextRun

Spec == Init /\ [][Next]_vars

\* Someone pushes to the branch of a pull request while the script runs.
RECURSIVE Pushes(_, _)
Pushes(heads, S) ==
    IF S = {} THEN 0
    ELSE LET k == CHOOSE x \in S : TRUE IN heads[k] + Pushes(heads, S \ {k})

Push ==
    /\ Pushes(head, PRKeys) < MaxPushes
    /\ \E k \in PRKeys : head' = [head EXCEPT ![k] = @ + 1]
    /\ UNCHANGED <<run, repos, i, pc, cache, stats, prs, j, pass, ent, reviews,
                   createCalls, createOks, probes, forbidden, firstDecision,
                   everCreated, calls>>

\* One run of the script with pushes arriving at any moment.
NextPush ==
    \/ NextRepo
    \/ Probe
    \/ List
    \/ NextPR
    \/ GetPR
    \/ UpdateBranch
    \/ CombinedStatus
    \/ GetAuthenticated
    \/ ListReviews
    \/ CreateReview
    \/ Push

SpecPush == Init /\ [][NextPush]_vars

\* Every awaited call settles, so main always takes its next step.
LiveSpec == Spec /\ WF_vars(Next)

----------------------------------------------------------------------------
(* Properties *)

Stale == {"behind", "blocked"}

MineApproved(rs) == \E r \in rs : r.login = Me /\ r.state = "APPROVED"

ValidCurrentEntry == i >= 1 /\ ~InvalidEntry(repos[i])

\* C1 (as stated): a pass over a pull request fetched as behind or blocked
\* issues exactly one update-branch request and no combined-status,
\* list-reviews or create-review call, whatever the update-branch outcome.
C1_Original ==
    (pass.outcome # None /\ pass.ms \in Stale)
      => /\ pass.nUpdate = 1
         /\ pass.nStatus = 0
         /\ pass.nList = 0
         /\ pass.nCreate = 0

\* C1 (amended): a pass over a pull request fetched as behind or blocked
\* issues exactly one update-branch request, whatever its outcome; when the
\* request succeeds the pass issues no combined-status, list-reviews or
\* create-review call.
C1_StalePassCalls ==
    (pass.ms \in Stale /\ pc # "sync")
      => /\ pass.nUpdate = 1
         /\ pass.sync \in {"ok", "e422", "e422conflict", "err"}
         /\ pass.sync = "ok"
              => pass.nStatus = 0 /\ pass.nList = 0 /\ pass.nCreate = 0

C1_Witness ==
    /\ pass.ms = "blocked"
    /\ pass.sync = "e422"
    /\ pass.ci = "success"
    /\ pass.nCreate = 1
    /\ pass.outcome = "approved"

\* C2: once the update-branch request of a pull request has succeeded the
\* pass is over with outcome synced, the updated counter is one more than
\* at the start of the pass, and the pass has issued no combined-status,
\* list-reviews or create-review call.
C2_SyncedEndsPass ==
    pass.sync = "ok"
      => /\ pc = "pr"
         /\ pass.outcome = "synced"
         /\ stats = [pass.stats0 EXCEPT !.updated = @ + 1]
         /\ pass.nStatus = 0
         /\ pass.nList = 0
         /\ pass.nCreate = 0

C2_Witness == pass.sync = "ok" /\ pass.ms = "behind" /\ pass.nUpdate = 1

\* C3: a pull request that is not behind or blocked and whose combined
\* status is not success gets no list-reviews and no create-review call,
\* and is counted once as skipped.
C3_NotGreenSkipped ==
    (pass.ms \in MergeableStates \ Stale /\ pass.ci \in CombinedStates \ {"success"})
      => /\ pc = "pr"
         /\ pass.outcome = "skipped-not-green"
         /\ pass.nList = 0
         /\ pass.nCreate = 0
         /\ stats = [pass.stats0 EXCEPT !.skipped = @ + 1]

C3_Witness == pass.ms = "clean" /\ pass.ci = "pending" /\ pass.nStatus = 1

\* C4: when the combined-status query throws, the pull request is not
\* ready: the pass ends at the loop head without a review call, nothing
\* reaches the catch block, and the next step takes the next pull request
\* of the same repository, if there is one.
C4_FailClosed ==
    [][pass.ci = "threw"
         => /\ pc = "pr"
            /\ pass.outcome = "skipped-not-green"
            /\ pass.nList = 0
            /\ pass.nCreate = 0
            /\ stats = [pass.stats0 EXCEPT !.skipped = @ + 1]
            /\ j < Len(prs)
                 => /\ pc' = "get"
                    /\ i' = i
                    /\ pass'.pr = prs[j + 1].number]_vars

C4_Witness == pass.ci = "threw" /\ pc = "pr" /\ j < Len(prs)

\* C5: when the reviews listed for a ready pull request hold an APPROVED
\* review of the acting identity, the pass issues no create-review call and
\* the approved counter is one more than at the start of the pass.
C5_AlreadyApprovedNoCreate ==
    MineApproved(pass.listed)
      => /\ pc = "pr"
         /\ pass.nCreate = 0
         /\ pass.outcome = "approved"
         /\ stats = [pass.stats0 EXCEPT !.approved = @ + 1]

C5_Witness ==
    /\ run = 1
    /\ pass.pr = 3
    /\ pass.ci = "success"
    /\ MineApproved(pass.listed)

\* C6 (as stated): in one run at most one create-review call is issued per
\* pull request.
C6_Original == \A k \in PRKeys : createCalls[k] <= 1

\* C6 (amended): in one run at most one create-review call per pull request
\* creates a review.
C6_AtMostOneCreated == \A k \in PRKeys : createOks[k] <= 1

C6_Witness ==
    /\ run = 1
    /\ i = 2
    /\ pc = "pr"
    /\ repos[1] = repos[2]
    /\ pass.pr = 1
    /\ createOks[key] = 1
    /\ pass.nCreate = 0
    /\ pass.outcome = "approved"

\* C7: a run issues no create-review call for a pull request for which an
\* earlier run created an approving review.
C7_IdempotentAcrossRuns == \A k \in everCreated : createCalls[k] = 0

C7_Witness ==
    /\ run = 2
    /\ pc = "pr"
    /\ pass.pr = 1
    /\ key \in everCreated
    /\ pass.ci = "success"
    /\ pass.outcome = "approved"

\* C8: a pass that fetched mergeableState clean, combined status success
\* and a review list without an APPROVED review of the acting identity
\* issues no update-branch call and exactly one create-review call, with
\* event APPROVE and an empty body; when that call returns, the approved
\* counter is one more than at the start of the pass.
C8_HappyPath ==
    (/\ pass.ms = "clean"
     /\ pass.ci = "success"
     /\ pass.listOk
     /\ ~MineApproved(pass.listed)
     /\ pc # "create")
      => /\ pass.nUpdate = 0
         /\ pass.nCreate = 1
         /\ pass.event = "APPROVE"
         /\ pass.body = ""
         /\ pass.created = "yes"
              => /\ pass.outcome = "approved"
                 /\ stats = [pass.stats0 EXCEPT !.approved = @ + 1]

C8_Witness ==
    /\ pass.ms = "clean"
    /\ pass.ci = "success"
    /\ pass.listOk
    /\ ~MineApproved(pass.listed)
    /\ pass.created = "yes"
    /\ stats.approved = pass.stats0.approved + 1

\* C9: for a repository entry whose owner's probe was answered 403 in this
\* run, no call other than the probe is issued and the saml_blocked counter
\* is one more than when the entry was taken up.
C9_ForbiddenOwnerGated ==
    (ValidCurrentEntry /\ pc # "probe" /\ owner \in forbidden)
      => /\ pc \in {"repo", "done"}
         /\ ~ent.called
         /\ pass = NoPass
         /\ stats = [ent.stats0 EXCEPT !.saml_blocked = @ + 1]

C9_Witness ==
    /\ ValidCurrentEntry
    /\ i = 2
    /\ pc = "repo"
    /\ owner \in forbidden
    /\ ~ent.probed
    /\ stats.saml_blocked = 2

\* C10: in one run each owner is probed at most once, and every valid
\* entry is gated by the decision its owner's first probe computed.
C10_ProbeOncePerOwner ==
    /\ \A o \in Owners : probes[o] <= 1
    /\ (ValidCurrentEntry /\ pc # "probe")
         => /\ ent.decision = firstDecision[owner]
            /\ ent.decision # NoEntry

C10_Witness ==
    /\ ValidCurrentEntry
    /\ i = 2
    /\ pc = "list"
    /\ ~ent.probed
    /\ probes[owner] = 1
    /\ OwnerOf(repos[1]) = owner
    /\ RepoOf(repos[1]) # repo

\* C11: checkSAMLAccess denies access exactly when the probe fails with 403
\* or 401, with a reason of its own for each; every other answer (success,
\* 404, any other error) grants access; the probe never reaches a catch
\* block of main: the step after it is the gate, which either counts the
\* repository as blocked or goes on to list its pull requests.
C11_AccessMapping ==
    (ent.probeStatus # 0 /\ pc # "done")
      => /\ ent.decision.hasAccess <=> ent.probeStatus \notin {401, 403}
         /\ ent.probeStatus = 403 <=> ent.decision.error = "saml"
         /\ ent.probeStatus = 401 <=> ent.decision.error = "auth"
         /\ ent.decision.hasAccess <=> ent.decision.error = None
         /\ ~ent.threw
         /\ pc = IF ent.decision.hasAccess THEN "list" ELSE "repo"
         /\ stats.skipped = ent.stats0.skipped

C11_Witness ==
    /\ ent.probeStatus = 404
    /\ ent.decision.hasAccess
    /\ pc = "list"

\* C12 (as stated): when a call made for one pull request throws, that pull
\* request alone is counted as skipped, and the loop over the repository's
\* dependency-bot pull requests goes on with the next one.
C12_Original ==
    pass.outcome = "threw"
      => /\ stats = [pass.stats0 EXCEPT !.skipped = @ + 1]
         /\ j < Len(prs) => pc = "pr"

\* C13 (as stated): when the update-branch request of a stale pull request
\* is rejected with a conflict or fails with any non-422 error, the request
\* is not repeated and the pull request is a skip for this pass: no
\* create-review call, not counted as approved.
C13_Original ==
    pass.sync \in {"e422conflict", "err"}
      => /\ pass.nUpdate = 1
         /\ pass.nCreate = 0
         /\ pass.outcome # "approved"
         /\ stats.approved = pass.stats0.approved

\* C14: whatever the remote system answers, every run completes: the index
\* into the repository list only ever moves to the next entry, and the run
\* reaches the summary with every entry visited.
C14_RunCompletes ==
    /\ [][i' # i => (i' = i + 1 \/ (pc = "done" /\ i' = 0))]_vars
    /\ [](pc = "done" => i = Len(repos))
    /\ \A r \in 1..MaxRuns : <>(run = r /\ pc = "done")

C14_Witness ==
    /\ pc = "done"
    /\ Len(repos) = 2
    /\ i = 2
    /\ ent.threw
    /\ stats.skipped >= 1
    /\ stats.saml_blocked >= 1

\* The steps in which an error is caught, by the place that catches it.
ProbeError == pc = "probe" /\ ent'.probeStatus \in ErrStatuses

ProbeDenial == pc = "probe" /\ ent'.probeStatus \in {401, 403}

UpdateError == pc = "sync" /\ pass'.sync # "ok"

StatusError == pc = "status" /\ pass'.ci = "threw"

CatchBlock == ~ent.threw /\ ent'.threw

OneCounter ==
    \E f \in {"approved", "skipped", "updated", "saml_blocked"} :
        stats' = Inc(stats, f)

RunGoesOn == pc' \in {"repo", "pr", "list", "status"}

\* C15 (as stated): every error caught in the organization probe, the
\* update-branch request, the combined-status query or the per-repository
\* catch block increments exactly one counter, and the run goes on.
C15_Original ==
    [][(ProbeError \/ UpdateError \/ StatusError \/ CatchBlock)
         => OneCounter /\ RunGoesOn]_vars

\* C15 (amended): every error caught in the combined-status query or in
\* the per-repository catch block, and every 403 or 401 caught in the
\* organization probe, increments exactly one counter; any other error
\* caught in the probe and every error caught in the update-branch request
\* increments none; after each of them the run goes on.
C15_CaughtErrorsCounted ==
    [][/\ (StatusError \/ CatchBlock \/ ProbeDenial) => OneCounter
       /\ ((ProbeError /\ ~ProbeDenial) \/ UpdateError) => stats' = stats
       /\ (ProbeError \/ UpdateError \/ StatusError \/ CatchBlock)
            => RunGoesOn]_vars

C15_Witness ==
    /\ ent.threw
    /\ pc = "repo"
    /\ pass.sync = "err"
    /\ pass.ci = "success"
    /\ stats = [pass.stats0 EXCEPT !.saml_blocked = @ + 1]

\* C16 (as stated): a pass over a pull request fetched as dirty (merge
\* conflicts) issues no update-branch call and no create-review call,
\* whatever its combined status.
C16_Original ==
    pass.ms = "dirty" => pass.nUpdate = 0 /\ pass.nCreate = 0

\* The entries up to the n-th that main processes as the repository r.
Occurrences(r, n) ==
    Cardinality({ k \in 1..n : /\ ~InvalidEntry(repos[k])
                               /\ <<OwnerOf(repos[k]), RepoOf(repos[k])>> = r })

RepoOfPR(k) == <<k[1], k[2]>>

\* C17 as stated, over the calls counted for the whole run: within one run,
\* for any configured repository list, at most one list-pull-requests call
\* per repository and at most one combined-status and one create-review call
\* per pull request.
C17_Original ==
    /\ \A r \in RepoKeys : calls.list[r] <= 1
    /\ \A k \in PRKeys : calls.status[k] <= 1 /\ createCalls[k] <= 1

\* C17 amended: within one run every remote action is attempted at most once
\* per entry of the list that names the repository: the list-pull-requests
\* calls of a repository, and the combined-status and create-review calls of
\* each of its pull requests, never outnumber the entries processed so far
\* that name it; one entry lists its repository once and passes over each
\* pull request once, and one pass issues update-branch, combined-status and
\* create-review at most once each.
C17_OncePerEntry ==
    /\ LET entries == [r \in RepoKeys |-> Occurrences(r, i)] IN
         /\ \A r \in RepoKeys : calls.list[r] <= entries[r]
         /\ \A k \in PRKeys : /\ calls.status[k] <= entries[RepoOfPR(k)]
                              /\ createCalls[k] <= entries[RepoOfPR(k)]
    /\ ent.nList <= 1
    /\ \A a, b \in 1..Len(prs) : prs[a].number = prs[b].number => a = b
    /\ pass.nUpdate <= 1 /\ pass.nStatus <= 1 /\ pass.nCreate <= 1

C17_Witness ==
    /\ calls.list[<<"o1", "r1">>] = 2
    /\ calls.status[<<"o1", "r1", 1>>] = 2
    /\ createCalls[<<"o1", "r1", 1>>] = 2
    /\ pass.nUpdate = 1 /\ pass.nCreate = 1

\* C18: the update-branch request of a pass carries as expectedHeadSha the
\* head SHA that the get-pull-request call of the same pass returned (the
\* response that supplied mergeableState), whatever SHA the list call showed.
C18_ExpectedHeadShaIsFresh ==
    pass.nUpdate = 1
      => /\ pass.nGet = 1 /\ IsOutdated(pass.ms)
         /\ pass.getSha # NoSha
         /\ pass.expectedHeadSha = pass.getSha

C18_Witness ==
    /\ pass.nUpdate = 1
    /\ pass.ms = "behind"
    /\ pass.listSha = 0
    /\ pass.getSha = 1
    /\ pass.expectedHeadSha = 1
    /\ pass.sync = "ok"

\* For each repository, the open pull requests whose author login,
\* lower-cased, contains the marker.
MarkedPRs ==
    [r \in RepoKeys |->
       { RemotePRs(r[1], r[2])[k].number : k \in
           { n \in 1..Len(RemotePRs(r[1], r[2])) :
               /\ RemotePRs(r[1], r[2])[n].user
               /\ includes(toLowerCase(RemotePRs(r[1], r[2])[n].login), Marker) } }]

MarkedNumbers == MarkedPRs[<<owner, repo>>]

\* The list call of the current entry returned and the entry is not left yet.
Listed == ent.nList = 1 /\ (ent.threw => pass.pr # 0) /\ pc # "done"

\* C19: a pull request enters the engine iff its author login, lower-cased,
\* contains 'dependabot': the pull requests main loops over are exactly those,
\* every pass (and so every get-pull-request, update-branch, combined-status,
\* list-reviews and create-review call) is for one of them, and a repository
\* whose open pull requests are all of other authors, or have no author,
\* leaves the counters unchanged.
C19_AuthorFilter ==
    /\ Listed => { prs[k].number : k \in 1..Len(prs) } = MarkedNumbers
    /\ pass.pr # 0 => pass.pr \in MarkedNumbers
    /\ (Listed /\ MarkedNumbers = {})
         => /\ pass = NoPass /\ ~ent.threw
            /\ stats = ent.stats0
            /\ pc = "repo"

C19_Witness ==
    /\ Len(repos) = 2 /\ i = 2
    /\ repos[1] = <<"o1", "r1">> /\ repos[2] = <<"o1", "r2">>
    /\ stats.approved = 2
    /\ Listed /\ MarkedNumbers = {} /\ pc = "repo"

\* An entry of exactly two non-empty slash-separated segments.
TwoSegments(e) == Len(e) = 2 /\ e[1] # "" /\ e[2] # ""

\* C20 as stated: an entry is processed only if it consists of exactly two
\* non-empty segments; for every other entry (no slash, an empty segment,
\* three or more segments) no API call is issued and no counter changes.
C20_Original ==
    (i >= 1 /\ ~TwoSegments(repos[i]))
      => /\ ~ent.probed /\ ~ent.called /\ ent.nList = 0
         /\ stats = ent.stats0

\* C21: the calls of one pass are issued in the order get-pull-request,
\* update-branch (if stale), combined-status, get-authenticated, list-reviews,
\* create-review, each after the previous one returned: a call of the pass
\* has been issued only when every earlier call of the sequence has returned
\* once; no combined-status query of a stale pull request precedes the return
\* of its update-branch request, no create-review precedes the return of
\* list-reviews, and each step issues one call.
C21_CallOrder ==
    /\ [](/\ pass.nUpdate >= 1 => pass.nGet = 1 /\ pass.ms \in {"behind", "blocked"}
          /\ (pass.nStatus >= 1 \/ pc = "status")
               => /\ pass.nGet = 1 /\ pass.ms # None
                  /\ pass.ms \in {"behind", "blocked"}
                       => pass.nUpdate = 1 /\ pass.sync \notin {None, "ok"}
          /\ (pass.nAuth >= 1 \/ pc = "auth") => pass.nStatus = 1 /\ pass.ci # None
          /\ (pass.nList >= 1 \/ pc = "reviews") => pass.nAuth = 1
          /\ (pass.nCreate >= 1 \/ pc = "create")
               => pass.nList = 1 /\ pass.listOk)
    /\ [][pass'.pr = pass.pr
            => (pass'.nGet + pass'.nUpdate + pass'.nStatus + pass'.nAuth
                  + pass'.nList + pass'.nCreate)
               - (pass.nGet + pass.nUpdate + pass.nStatus + pass.nAuth
                    + pass.nList + pass.nCreate) \in {0, 1}]_vars

C21_Witness ==
    /\ pass.nGet = 1 /\ pass.nUpdate = 1 /\ pass.nStatus = 1 /\ pass.nAuth = 1
    /\ pass.nList = 1 /\ pass.nCreate = 1 /\ pass.created = "yes"

\* C22: a create-review call of a pass has been issued only if the
\* combined-status query of the same pass returned state "success", for
\* every mergeableState, stale pull requests with a failed update-branch
\* request included.
C22_NoApprovalWithoutGreen ==
    pass.nCreate >= 1
      => /\ pass.nStatus = 1
         /\ pass.ci = "success"
         /\ calls.status[key] >= 1 /\ createCalls[key] >= 1

C22_Witness ==
    /\ pass.nCreate = 1 /\ pass.created = "yes"
    /\ pass.ms = "blocked" /\ pass.sync = "err"
    /\ pass.ci = "success"

\* C23 as stated: the combined-status query of a pass is made for the head
\* SHA that the get-pull-request call of the same pass returned, also when
\* the head moved between the list call and the get call.
C23_Original ==
    pass.nStatus = 1 => pass.ref = pass.getSha

\* C24 as stated: under any interleaving with pushes, when a create-review
\* call takes effect the head commit of the pull request at that moment is
\* the commit whose combined status the pass observed as "success".
C24_Original ==
    pass.created = "yes"
      => pass.ci = "success" /\ pass.reviewedSha = pass.ref

\* C25 as stated: at the end of every run, each dependency-bot pull request
\* returned by list-pull-requests has contributed exactly one increment to
\* exactly one of the counters synced, approved, skipped, and no increment of
\* these counters stands for anything else: their sum is the number of such
\* pull requests.
C25_Original ==
    pc = "done"
      => stats.updated + stats.approved + stats.skipped = calls.listed

\* The valid entries whose owner's cached decision denies access.
Denials ==
    Cardinality({ k \in 1..Len(repos) :
                    /\ ~InvalidEntry(repos[k])
                    /\ ~cache[OwnerOf(repos[k])].hasAccess })

\* C26 as stated: the access-blocked counter counts access-gate denials only:
\* at the end of a run it equals the number of valid entries whose owner's
\* cached decision has hasAccess = false, and an entry that passed the gate
\* never increments it, whatever a later call for that repository throws.
C26_Original ==
    /\ pc = "done" => stats.saml_blocked = Denials
    /\ (pc # "done" /\ i >= 1 /\ ent.decision.hasAccess)
         => stats.saml_blocked = ent.stats0.saml_blocked

====
